---- MODULE Spec2Model ----
(***************************************************************************)
(* Model of src/main.py: class DistillationColumn (constructor, the three  *)
(* calculate_* methods and simulate).                                      *)
(*                                                                         *)
(* Arithmetic is exact.  A number is kept in the normal form               *)
(*        (n / d) * pi^p * T^k                                             *)
(* with n/d a reduced fraction, p an integer and T at most one term        *)
(* 10^(c0 + c1*log10(F) + c2*log10(F)^2), F a positive reduced fraction,   *)
(* raised to the power k.  pi is transcendental and T is never rational    *)
(* for the coefficients of line 43, so two numbers are equal exactly when  *)
(* their normal forms are.  Square and fifth roots are taken exactly; the  *)
(* input sets below only hold values whose roots are rational.  The model  *)
(* does not round: floating-point rounding, overflow and underflow of the  *)
(* Python floats are outside it.                                           *)
(*                                                                         *)
(* A Python exception is the value [exc |-> <name>]; every operator passes *)
(* on the exception of its left operand first, then of its right operand,  *)
(* which is Python's evaluation order.                                     *)
(***************************************************************************)
EXTENDS Integers, Sequences, FiniteSets, TLC

VARIABLES obj, pc, frame, ret

vars == <<obj, pc, frame, ret>>

(************************** bounds of the model ****************************)

\* Largest nominal flow drawn for a constructor argument or a direct call.
MaxFlow == 2

\* Largest column diameter drawn.
MaxDiameter == 2

(****************************** exceptions *********************************)

ZeroDivisionError == [exc |-> "ZeroDivisionError"]

ValueError == [exc |-> "ValueError"]

IsExc(x) == "exc" \in DOMAIN x

\* A name that holds nothing (yet).
Unbound == [unbound |-> TRUE]

IsBound(x) == "unbound" \notin DOMAIN x

\* An expression whose value has no normal form: evaluating it stops TLC.
Unrepresentable == CHOOSE x \in {} : TRUE

(****************************** arithmetic *********************************)

Abs(x) == IF x < 0 THEN -x ELSE x

RECURSIVE GCD(_, _)
GCD(a, b) == IF b = 0 THEN a ELSE GCD(b, a % b)

\* The number (n/d) * pi^p * sym, reduced; d # 0.
MkNum(n, d, p, sym) ==
    IF n = 0 THEN [n |-> 0, d |-> 1, pi |-> 0, sym |-> <<>>]
    ELSE LET g == GCD(Abs(n), Abs(d))
             s == IF d < 0 THEN -1 ELSE 1
         IN [n |-> s * (n \div g), d |-> s * (d \div g), pi |-> p, sym |-> sym]

R(n, d) == MkNum(n, d, 0, <<>>)

I(n) == R(n, 1)

\* math.pi
Pi == MkNum(1, 1, 1, <<>>)

IsRational(a) == a.pi = 0 /\ a.sym = <<>>

\* Product of two symbolic parts <<>> or <<term, power>>.
SymMul(s, t) ==
    IF s = <<>> THEN t
    ELSE IF t = <<>> THEN s
    ELSE IF s[1] # t[1] THEN Unrepresentable
    ELSE IF s[2] + t[2] = 0 THEN <<>>
    ELSE <<s[1], s[2] + t[2]>>

SymInv(s) == IF s = <<>> THEN s ELSE <<s[1], -s[2]>>

\* a * b
Mul(a, b) ==
    IF IsExc(a) THEN a
    ELSE IF IsExc(b) THEN b
    ELSE MkNum(a.n * b.n, a.d * b.d, a.pi + b.pi, SymMul(a.sym, b.sym))

\* a / b  (true division: a zero divisor raises ZeroDivisionError)
Div(a, b) ==
    IF IsExc(a) THEN a
    ELSE IF IsExc(b) THEN b
    ELSE IF b.n = 0 THEN ZeroDivisionError
    ELSE MkNum(a.n * b.d, a.d * b.n, a.pi - b.pi, SymMul(a.sym, SymInv(b.sym)))

\* a + b and a - b, on fractions
Add(a, b) ==
    IF IsExc(a) THEN a
    ELSE IF IsExc(b) THEN b
    ELSE IF ~(IsRational(a) /\ IsRational(b)) THEN Unrepresentable
    ELSE R(a.n * b.d + b.n * a.d, a.d * b.d)

Sub(a, b) ==
    IF IsExc(a) THEN a
    ELSE IF IsExc(b) THEN b
    ELSE IF ~(IsRational(a) /\ IsRational(b)) THEN Unrepresentable
    ELSE R(a.n * b.d - b.n * a.d, a.d * b.d)

\* The exact integer k-th roots (no value when m is not a perfect power).
ISqrt(m) == CHOOSE r \in 0..m : r * r = m

IRoot5(m) == CHOOSE r \in 0..m : r * r * r * r * r = m

\* math.sqrt(a): ValueError ("math domain error") below zero
Sqrt(a) ==
    IF IsExc(a) THEN a
    ELSE IF a.n < 0 THEN ValueError
    ELSE IF ~IsRational(a) THEN Unrepresentable
    ELSE R(ISqrt(a.n), ISqrt(a.d))

\* a ** 0.2 for a >= 0
Pow02(a) ==
    IF IsExc(a) THEN a
    ELSE IF a.n < 0 \/ ~IsRational(a) THEN Unrepresentable
    ELSE R(IRoot5(a.n), IRoot5(a.d))

\* math.log10(a): ValueError ("math domain error") at and below zero.  The
\* logarithm of a positive fraction is kept as the term [log10 |-> <<n, d>>].
Log10(a) ==
    IF IsExc(a) THEN a
    ELSE IF a.n <= 0 THEN ValueError
    ELSE IF ~IsRational(a) THEN Unrepresentable
    ELSE [log10 |-> <<a.n, a.d>>]

\* 10 ** (c0 + c1 * L + c2 * L ** 2), the coefficients in units of 1e-5
Pow10Poly(c0, c1, c2, L) ==
    IF IsExc(L) THEN L
    ELSE MkNum(1, 1, 0, <<[c0 |-> c0, c1 |-> c1, c2 |-> c2, L |-> L.log10], 1>>)

IsZero(a) == ~IsExc(a) /\ a.n = 0

IsPositive(a) == ~IsExc(a) /\ a.n > 0

(*********************** class DistillationColumn **************************)

Attributes ==
    {"diameter", "Dmole_flow", "Bmole_flow", "Dmass_flow", "Bmass_flow",
     "reflux_ratio", "boilup_ratio", "liquid_density", "vapor_density",
     "molecular_weight", "surface_tension", "cross_sectional_area"}

\* 0.85 * (math.pi * diameter ** 2) / 4
Area(diameter) ==
    Div(Mul(R(85, 100), Mul(Pi, Mul(I(diameter), I(diameter)))), I(4))

\* __init__: the object after construction.  No statement of it can raise
\* on numbers, and none checks an argument.
DistillationColumn(diameter, Dmole_flow, Bmole_flow, Dmass_flow, Bmass_flow, reflux_ratio, boilup_ratio, liquid_density, vapor_density, molecular_weight, surface_tension) ==
    [diameter |-> diameter,
     Dmole_flow |-> Dmole_flow,
     Bmole_flow |-> Bmole_flow,
     Dmass_flow |-> Dmass_flow,
     Bmass_flow |-> Bmass_flow,
     reflux_ratio |-> reflux_ratio,
     boilup_ratio |-> boilup_ratio,
     liquid_density |-> liquid_density,
     vapor_density |-> vapor_density,
     molecular_weight |-> molecular_weight,
     surface_tension |-> surface_tension,
     cross_sectional_area |-> Area(diameter)]

\* Mutant: the two mass flows are returned in the other order.
calculate_flow_rates_swapped(self) ==
    LET Vmole_flow == Mul(I(self.Dmole_flow), Add(I(self.reflux_ratio), I(1)))
        Bmole_flow == Mul(I(self.Bmole_flow), Add(I(self.boilup_ratio), I(1)))
        Vmass_flow == Mul(I(self.Dmass_flow), Add(I(self.reflux_ratio), I(1)))
        Bmass_flow == Mul(I(self.Bmass_flow), Add(I(self.boilup_ratio), I(1)))
    IN <<Vmole_flow, Bmole_flow, Bmass_flow, Vmass_flow>>

\* calculate_flow_rates: (Vmole_flow, Bmole_flow, Vmass_flow, Bmass_flow)
calculate_flow_rates(self) ==
    LET Vmole_flow == Mul(I(self.Dmole_flow), Add(I(self.reflux_ratio), I(1)))
        Bmole_flow == Mul(I(self.Bmole_flow), Add(I(self.boilup_ratio), I(1)))
        Vmass_flow == Mul(I(self.Dmass_flow), Add(I(self.reflux_ratio), I(1)))
        Bmass_flow == Mul(I(self.Bmass_flow), Add(I(self.boilup_ratio), I(1)))
    IN <<Vmole_flow, Bmole_flow, Vmass_flow, Bmass_flow>>

\* calculate_opt_velocity, in ft/s
calculate_opt_velocity(self, Vmole_flow) ==
    LET v_opt == Div(Mul(Vmole_flow, I(self.molecular_weight)),
                     Mul(Mul(I(self.vapor_density), self.cross_sectional_area),
                         I(3600)))
    IN Div(v_opt, R(3048, 10000))

\* Mutant: a zero vapor mass flow is guarded by taking Flv = 0.
FlvOfGuarded(self, Bmass_flow, Vmass_flow) ==
    IF IsZero(Vmass_flow) THEN I(0)
    ELSE Mul(Div(Bmass_flow, Vmass_flow),
             Sqrt(Div(I(self.vapor_density), I(self.liquid_density))))

\* Mutant: the bottoms flow is not divided by the vapor flow.
FlvOfNoRatio(self, Bmass_flow, Vmass_flow) ==
    Mul(Mul(Bmass_flow, Vmass_flow),
        Sqrt(Div(I(self.vapor_density), I(self.liquid_density))))

\* Line 40: Flv = (Bmass_flow / Vmass_flow) * sqrt(vapor_density / liquid_density)
FlvOf(self, Bmass_flow, Vmass_flow) ==
    Mul(Div(Bmass_flow, Vmass_flow),
        Sqrt(Div(I(self.vapor_density), I(self.liquid_density))))

\* Mutant: a non-positive Flv is clamped to 0.01 before the logarithm.
CsbfOfClamped(Flv) ==
    IF IsExc(Flv) \/ IsPositive(Flv)
    THEN Pow10Poly(-102620, -63513, -20097, Log10(Flv))
    ELSE Pow10Poly(-102620, -63513, -20097, Log10(R(1, 100)))

\* Line 43: Csbf
CsbfOf(Flv) == Pow10Poly(-102620, -63513, -20097, Log10(Flv))

\* calculate_flooding_velocity, in ft/s
calculate_flooding_velocity(self, Bmass_flow, Vmass_flow) ==
    LET Flv == FlvOf(self, Bmass_flow, Vmass_flow)
        Csbf == CsbfOf(Flv)
        v_flood ==
            Mul(Mul(Csbf, Pow02(Div(I(self.surface_tension), I(20)))),
                Sqrt(Div(Sub(I(self.liquid_density), I(self.vapor_density)),
                         I(self.vapor_density))))
    IN v_flood

\* Mutant: the ratio of line 56 is taken the other way round.
ReportInverted(v_opt, v_flood) ==
    LET flooding_percentage == Mul(Div(v_flood, v_opt), I(100))
    IN IF IsExc(flooding_percentage) THEN flooding_percentage
       ELSE [flooding_velocity |-> v_flood,
             operating_velocity |-> v_opt,
             flooding_percentage |-> flooding_percentage]

\* Mutant: a zero flooding velocity is caught and the percentage left out.
ReportPartial(v_opt, v_flood) ==
    LET flooding_percentage == Mul(Div(v_opt, v_flood), I(100))
    IN IF IsExc(flooding_percentage)
       THEN [flooding_velocity |-> v_flood, operating_velocity |-> v_opt]
       ELSE [flooding_velocity |-> v_flood,
             operating_velocity |-> v_opt,
             flooding_percentage |-> flooding_percentage]

\* Line 56 and the dictionary of lines 58-62, from the two velocities.
Report(v_opt, v_flood) ==
    LET flooding_percentage == Mul(Div(v_opt, v_flood), I(100))
    IN IF IsExc(flooding_percentage) THEN flooding_percentage
       ELSE [flooding_velocity |-> v_flood,
             operating_velocity |-> v_opt,
             flooding_percentage |-> flooding_percentage]

\* simulate run from its first statement to its return or its exception.
simulate(self) ==
    LET flows == calculate_flow_rates(self)
        v_opt == calculate_opt_velocity(self, flows[1])
        v_flood == calculate_flooding_velocity(self, flows[4], flows[3])
    IN IF IsExc(v_opt) THEN v_opt
       ELSE IF IsExc(v_flood) THEN v_flood
       ELSE Report(v_opt, v_flood)

(************************* the objects of a run ****************************)

\* The names main binds column objects to.
Columns == {"column", "column2"}

\* The constructor arguments a run draws from.  Densities are drawn from
\* squares whose ratios and differences have rational roots (9, 16 and 25),
\* from zero and from a negative value; surface tensions from 20 times a
\* fifth power.
Wide ==
    [diameter |-> 0..MaxDiameter,
     Dmole_flow |-> {MaxFlow},
     Bmole_flow |-> {MaxFlow + 1},
     Dmass_flow |-> 0..MaxFlow,
     Bmass_flow |-> {-1, 0, 1},
     reflux_ratio |-> {-1, 0, 1},
     boilup_ratio |-> {0, 1},
     liquid_density |-> {-25, 0, 9, 25},
     vapor_density |-> {0, 9, 25},
     molecular_weight |-> {3},
     surface_tension |-> {640}]

\* Few arguments, failing and succeeding ones, for runs with two objects:
\* a zero diameter (line 54 raises), a zero vapor mass flow (line 55 raises),
\* a zero bottoms flow (line 55 raises), equal densities (line 56 raises).
Mixed ==
    [diameter |-> {0, MaxDiameter},
     Dmole_flow |-> {MaxFlow},
     Bmole_flow |-> {MaxFlow + 1},
     Dmass_flow |-> 0..MaxFlow,
     Bmass_flow |-> {0, 1},
     reflux_ratio |-> {1},
     boilup_ratio |-> {1},
     liquid_density |-> {9, 25},
     vapor_density |-> {9},
     molecular_weight |-> {3},
     surface_tension |-> {640}]

\* Physically valid arguments only, every flow varied, for a pair of columns
\* that differ by a scale factor.
Narrow ==
    [diameter |-> {MaxDiameter},
     Dmole_flow |-> 1..MaxFlow,
     Bmole_flow |-> 1..MaxFlow,
     Dmass_flow |-> 1..MaxFlow,
     Bmass_flow |-> 1..MaxFlow,
     reflux_ratio |-> {1},
     boilup_ratio |-> {0},
     liquid_density |-> {25},
     vapor_density |-> {9},
     molecular_weight |-> {3},
     surface_tension |-> {640}]

\* The arguments of a direct call of a calculate_* method.
VmoleArgs == {I(v) : v \in 1..MaxFlow}

BmassArgs == {I(b) : b \in -1..MaxFlow}

VmassArgs == {I(v) : v \in 0..MaxFlow}

Returned(method, args, out) == [method |-> method, args |-> args, out |-> out]

Init ==
    /\ obj = [c \in Columns |-> Unbound]
    /\ pc = [c \in Columns |-> "idle"]
    /\ frame = [c \in Columns |-> Unbound]
    /\ ret = [c \in Columns |-> Unbound]

\* c = DistillationColumn(...), its arguments drawn from dom
Construct(c, dom) ==
    /\ ~IsBound(obj[c])
    /\ \E diameter \in dom.diameter, Dmole_flow \in dom.Dmole_flow,
          Bmole_flow \in dom.Bmole_flow, Dmass_flow \in dom.Dmass_flow,
          Bmass_flow \in dom.Bmass_flow, reflux_ratio \in dom.reflux_ratio,
          boilup_ratio \in dom.boilup_ratio, liquid_density \in dom.liquid_density,
          vapor_density \in dom.vapor_density,
          molecular_weight \in dom.molecular_weight,
          surface_tension \in dom.surface_tension :
            obj' = [obj EXCEPT ![c] =
                DistillationColumn(diameter, Dmole_flow, Bmole_flow, Dmass_flow,
                                   Bmass_flow, reflux_ratio, boilup_ratio,
                                   liquid_density, vapor_density,
                                   molecular_weight, surface_tension)]
    /\ UNCHANGED <<pc, frame, ret>>

\* Mutant: the adjusted bottoms flows are assigned to the attributes of the
\* same names instead of to locals.
FlowRatesSelfAssigned(self) ==
    [self EXCEPT !.Bmole_flow = self.Bmole_flow * (self.boilup_ratio + 1),
                 !.Bmass_flow = self.Bmass_flow * (self.boilup_ratio + 1)]

\* The object after calculate_flow_rates, which assigns no attribute.
FlowRatesSelf(self) == self

\* c.simulate() is entered and line 53 runs.  ret[c] is what the last call on
\* c returned; it holds nothing while a call is running.
SimulateLine53(c) ==
    /\ IsBound(obj[c])
    /\ pc[c] = "idle"
    /\ LET flows == calculate_flow_rates(obj[c])
       IN frame' = [frame EXCEPT ![c] =
                      [Vmole_flow |-> flows[1], Bmole_flow |-> flows[2],
                       Vmass_flow |-> flows[3], Bmass_flow |-> flows[4]]]
    /\ obj' = [obj EXCEPT ![c] = FlowRatesSelf(obj[c])]
    /\ pc' = [pc EXCEPT ![c] = "line54"]
    /\ ret' = [ret EXCEPT ![c] = Unbound]

\* simulate leaves with exception e: its frame is gone.
Raise(c, e) ==
    /\ ret' = [ret EXCEPT ![c] = Returned("simulate", <<>>, e)]
    /\ frame' = [frame EXCEPT ![c] = Unbound]
    /\ pc' = [pc EXCEPT ![c] = "idle"]

\* Line 54: v_opt = self.calculate_opt_velocity(Vmole_flow)
SimulateLine54(c) ==
    /\ pc[c] = "line54"
    /\ LET v_opt == calculate_opt_velocity(obj[c], frame[c].Vmole_flow)
       IN IF IsExc(v_opt) THEN Raise(c, v_opt)
          ELSE /\ frame' = [frame EXCEPT ![c] =
                              [n \in DOMAIN frame[c] \cup {"v_opt"} |->
                                  IF n = "v_opt" THEN v_opt ELSE frame[c][n]]]
               /\ pc' = [pc EXCEPT ![c] = "line55"]
               /\ UNCHANGED ret
    /\ UNCHANGED obj

\* Line 55: v_flood = self.calculate_flooding_velocity(Bmass_flow, Vmass_flow)
SimulateLine55(c) ==
    /\ pc[c] = "line55"
    /\ LET v_flood == calculate_flooding_velocity(obj[c], frame[c].Bmass_flow,
                                                  frame[c].Vmass_flow)
       IN IF IsExc(v_flood) THEN Raise(c, v_flood)
          ELSE /\ frame' = [frame EXCEPT ![c] =
                              [n \in DOMAIN frame[c] \cup {"v_flood"} |->
                                  IF n = "v_flood" THEN v_flood ELSE frame[c][n]]]
               /\ pc' = [pc EXCEPT ![c] = "line56"]
               /\ UNCHANGED ret
    /\ UNCHANGED obj

\* Lines 56-62: the percentage, and the dictionary returned.
SimulateLine56(c) ==
    /\ pc[c] = "line56"
    /\ LET result == Report(frame[c].v_opt, frame[c].v_flood)
       IN IF IsExc(result) THEN Raise(c, result)
          ELSE /\ ret' = [ret EXCEPT ![c] = Returned("simulate", <<>>, result)]
               /\ frame' = [frame EXCEPT ![c] = Unbound]
               /\ pc' = [pc EXCEPT ![c] = "idle"]
    /\ UNCHANGED obj

\* A direct call c.calculate_flow_rates()
CallFlowRates(c) ==
    /\ IsBound(obj[c])
    /\ pc[c] = "idle"
    /\ ret' = [ret EXCEPT ![c] =
                  Returned("calculate_flow_rates", <<>>, calculate_flow_rates(obj[c]))]
    /\ obj' = [obj EXCEPT ![c] = FlowRatesSelf(obj[c])]
    /\ UNCHANGED <<pc, frame>>

\* A direct call c.calculate_opt_velocity(Vmole_flow)
CallOptVelocity(c) ==
    /\ IsBound(obj[c])
    /\ pc[c] = "idle"
    /\ \E Vmole_flow \in VmoleArgs :
          ret' = [ret EXCEPT ![c] =
                     Returned("calculate_opt_velocity", <<Vmole_flow>>,
                              calculate_opt_velocity(obj[c], Vmole_flow))]
    /\ UNCHANGED <<obj, pc, frame>>

\* A direct call c.calculate_flooding_velocity(Bmass_flow, Vmass_flow)
CallFloodingVelocity(c) ==
    /\ IsBound(obj[c])
    /\ pc[c] = "idle"
    /\ \E Bmass_flow \in BmassArgs, Vmass_flow \in VmassArgs :
          ret' = [ret EXCEPT ![c] =
                     Returned("calculate_flooding_velocity", <<Bmass_flow, Vmass_flow>>,
                              calculate_flooding_velocity(obj[c], Bmass_flow, Vmass_flow))]
    /\ UNCHANGED <<obj, pc, frame>>

\* c.simulate(), line by line
Simulate(c) ==
    \/ SimulateLine53(c)
    \/ SimulateLine54(c)
    \/ SimulateLine55(c)
    \/ SimulateLine56(c)

\* One column object, any arguments, any method.
Next ==
    \/ Construct("column", Wide)
    \/ Simulate("column")
    \/ CallFlowRates("column")
    \/ CallOptVelocity("column")
    \/ CallFloodingVelocity("column")

Spec == Init /\ [][Next]_vars

\* Two valid column objects, simulated.
NextTwo == \E c \in Columns : Construct(c, Narrow) \/ Simulate(c)

SpecTwo == Init /\ [][NextTwo]_vars

\* Two column objects, valid or not, their simulate calls interleaved line by
\* line: every step after a construction is one call of a calculate_* method
\* (lines 53, 54, 55) or the end of simulate (lines 56-62).
NextPair == \E c \in Columns : Construct(c, Mixed) \/ Simulate(c)

SpecPair == Init /\ [][NextPair]_vars

\* c.diameter = value or c.cross_sectional_area = value, by a caller: the
\* attributes are plain instance attributes (lines 7 and 22), which Python lets
\* any caller rebind, and the area is computed in __init__ only.
SetAttr(c) ==
    /\ IsBound(obj[c])
    /\ pc[c] = "idle"
    /\ \/ \E value \in 0..MaxDiameter :
             obj' = [obj EXCEPT ![c].diameter = value]
       \/ \E value \in {Area(d) : d \in 0..MaxDiameter} :
             obj' = [obj EXCEPT ![c].cross_sectional_area = value]
    /\ UNCHANGED <<pc, frame, ret>>

\* One column object whose caller also assigns attributes.
NextAssign ==
    \/ Construct("column", Mixed)
    \/ Simulate("column")
    \/ SetAttr("column")

SpecAssign == Init /\ [][NextAssign]_vars

(******************************* claims ************************************)

\* The error kinds of the specification, as the exceptions the code raises:
\* a zero divisor is Python's ZeroDivisionError, an argument outside the
\* domain of math.sqrt or math.log10 is Python's ValueError.
DivisionByZero == ZeroDivisionError

InvalidParameter == ValueError

\* The last call on c has returned, and was a call of method.
Called(c, method) == IsBound(ret[c]) /\ ret[c].method = method

\* The adjusted flows of lines 26-29, in integers.
VaporMole(o) == o.Dmole_flow * (o.reflux_ratio + 1)

BottomsMole(o) == o.Bmole_flow * (o.boilup_ratio + 1)

VaporMass(o) == o.Dmass_flow * (o.reflux_ratio + 1)

BottomsMass(o) == o.Bmass_flow * (o.boilup_ratio + 1)

\* Positive scale factors: the fractions of small integers, and the 1.33 of
\* the reference data.
Factors == {R(n, d) : n \in 1..(MaxFlow + 1), d \in 1..(MaxFlow + 1)} \cup {R(133, 100)}

(* C1: a column constructed with a non-positive diameter, a non-positive     *)
(* liquid or vapor density, or liquid_density <= vapor_density does not      *)
(* exist: construction fails and yields no column record.                    *)
C1_NoInvalidColumn ==
    \A c \in Columns :
        IsBound(obj[c]) =>
            /\ obj[c].diameter > 0
            /\ obj[c].liquid_density > 0
            /\ obj[c].vapor_density > 0
            /\ obj[c].liquid_density > obj[c].vapor_density

\* b is a with its four flows multiplied by k, everything else the same.
ScaledBy(a, b, k) ==
    /\ \A f \in {"Dmole_flow", "Bmole_flow", "Dmass_flow", "Bmass_flow"} :
          I(b[f]) = Mul(k, I(a[f]))
    /\ \A f \in Attributes \ {"Dmole_flow", "Bmole_flow", "Dmass_flow", "Bmass_flow"} :
          b[f] = a[f]

SimulateReturned(c) == Called(c, "simulate") /\ ~IsExc(ret[c].out)

(* C2 as stated: two columns whose four flows differ by a positive factor k  *)
(* and that agree in every other parameter get the same flooding_percentage  *)
(* from simulate.                                                            *)
C2_SamePercentageWhenScaled ==
    \A c1, c2 \in Columns : \A k \in Factors :
        (SimulateReturned(c1) /\ SimulateReturned(c2) /\ ScaledBy(obj[c1], obj[c2], k)) =>
            ret[c2].out.flooding_percentage = ret[c1].out.flooding_percentage

(* C2 as amended: scaling the four flows by k leaves flooding_velocity       *)
(* unchanged and multiplies operating_velocity and flooding_percentage by k. *)
C2_PercentageScalesWithFlows ==
    \A c1, c2 \in Columns : \A k \in Factors :
        (SimulateReturned(c1) /\ SimulateReturned(c2) /\ ScaledBy(obj[c1], obj[c2], k)) =>
            /\ ret[c2].out.flooding_velocity = ret[c1].out.flooding_velocity
            /\ ret[c2].out.operating_velocity = Mul(k, ret[c1].out.operating_velocity)
            /\ ret[c2].out.flooding_percentage = Mul(k, ret[c1].out.flooding_percentage)

\* Both columns have been simulated, the second the first scaled by 2.
C2_Witness ==
    /\ SimulateReturned("column")
    /\ SimulateReturned("column2")
    /\ ScaledBy(obj["column"], obj["column2"], I(2))

(* C3: in every state of a column object, after construction and any         *)
(* attribute assignments and simulate calls, cross_sectional_area equals     *)
(* 0.85 * pi * diameter^2 / 4 for the current diameter.                      *)
C3_AreaFollowsDiameter ==
    \A c \in Columns :
        IsBound(obj[c]) =>
            obj[c].cross_sectional_area =
                MkNum(17 * obj[c].diameter * obj[c].diameter, 80, 1, <<>>)

(* C4: simulate on a column whose adjusted vapor mass flow,                  *)
(* Dmass_flow * (reflux_ratio + 1), is 0 fails with DivisionByZero, whatever *)
(* the other parameters are.                                                 *)
C4_ZeroVaporMassFlowDivides ==
    \A c \in Columns :
        (Called(c, "simulate") /\ VaporMass(obj[c]) = 0) =>
            ret[c].out = DivisionByZero

\* simulate has failed on a zero vapor mass flow that comes from the reflux
\* ratio, on a column whose operating velocity (line 54) is computable.
C4_Witness ==
    /\ Called("column", "simulate")
    /\ obj["column"].Dmass_flow # 0
    /\ VaporMass(obj["column"]) = 0
    /\ obj["column"].diameter # 0
    /\ obj["column"].vapor_density # 0

(* C5: calculate_flooding_velocity on a column with liquid_density <=        *)
(* vapor_density fails with InvalidParameter and returns no velocity (stated *)
(* here for positive densities and positive mass flows, where nothing else   *)
(* can fail).                                                                *)
C5_DensityOrderRejected ==
    \A c \in Columns :
        (/\ Called(c, "calculate_flooding_velocity")
         /\ IsPositive(ret[c].args[1])
         /\ IsPositive(ret[c].args[2])
         /\ obj[c].vapor_density > 0
         /\ obj[c].liquid_density > 0
         /\ obj[c].liquid_density <= obj[c].vapor_density) =>
            ret[c].out = InvalidParameter

(* C6: calculate_flooding_velocity called with a non-zero vapor mass flow    *)
(* and mass flows for which line 40 yields Flv <= 0 fails with               *)
(* InvalidParameter; no velocity is returned.                                *)
C6_NonPositiveFlvRejected ==
    \A c \in Columns :
        (/\ Called(c, "calculate_flooding_velocity")
         /\ ~IsZero(ret[c].args[2])
         /\ obj[c].liquid_density # 0
         /\ \/ IsZero(ret[c].args[1])
            \/ IsPositive(ret[c].args[1]) # IsPositive(ret[c].args[2])
            \/ obj[c].vapor_density = 0) =>
            ret[c].out = InvalidParameter

\* The call was made with bottoms and vapor mass flows of opposite sign on a
\* column with valid densities.
C6_Witness ==
    /\ Called("column", "calculate_flooding_velocity")
    /\ ret["column"].args[1].n < 0
    /\ ret["column"].args[2].n > 0
    /\ obj["column"].liquid_density > obj["column"].vapor_density
    /\ obj["column"].vapor_density > 0
    /\ ret["column"].out = InvalidParameter

(* C7: for a fixed column, whenever calculate_flooding_velocity(B, V)        *)
(* succeeds, calculate_flooding_velocity(k*B, k*V) returns the same value,   *)
(* for every k > 0.                                                          *)
C7_FloodingVelocityScaleInvariant ==
    \A c \in Columns : \A k \in Factors :
        (Called(c, "calculate_flooding_velocity") /\ ~IsExc(ret[c].out)) =>
            calculate_flooding_velocity(obj[c], Mul(k, ret[c].args[1]),
                                        Mul(k, ret[c].args[2])) = ret[c].out

\* A call with distinct flows has returned a velocity that is not zero.
C7_Witness ==
    /\ Called("column", "calculate_flooding_velocity")
    /\ IsPositive(ret["column"].out)
    /\ ret["column"].args[1] # ret["column"].args[2]

(* C8: calculate_flow_rates never fails and returns (vapor mole, bottoms     *)
(* mole, vapor mass, bottoms mass) = (Dmole*(reflux+1), Bmole*(boilup+1),    *)
(* Dmass*(reflux+1), Bmass*(boilup+1)); with a ratio of 0 the flows are the  *)
(* nominal ones; simulate passes the vapor mole flow to the operating        *)
(* velocity and the bottoms and vapor mass flows to the flooding velocity.   *)
C8_FlowRates ==
    \A c \in Columns :
        /\ Called(c, "calculate_flow_rates") =>
              /\ ret[c].out = <<I(VaporMole(obj[c])), I(BottomsMole(obj[c])),
                                I(VaporMass(obj[c])), I(BottomsMass(obj[c]))>>
              /\ obj[c].reflux_ratio = 0 =>
                    /\ ret[c].out[1] = I(obj[c].Dmole_flow)
                    /\ ret[c].out[3] = I(obj[c].Dmass_flow)
              /\ obj[c].boilup_ratio = 0 =>
                    /\ ret[c].out[2] = I(obj[c].Bmole_flow)
                    /\ ret[c].out[4] = I(obj[c].Bmass_flow)
        /\ pc[c] \in {"line55", "line56"} =>
              frame[c].v_opt = calculate_opt_velocity(obj[c], I(VaporMole(obj[c])))
        /\ pc[c] = "line56" =>
              frame[c].v_flood =
                  calculate_flooding_velocity(obj[c], I(BottomsMass(obj[c])),
                                              I(VaporMass(obj[c])))

\* calculate_flow_rates has returned on a column without reflux and with
\* boilup, whose four nominal flows differ.
C8_Witness ==
    /\ Called("column", "calculate_flow_rates")
    /\ obj["column"].reflux_ratio = 0
    /\ obj["column"].boilup_ratio = 1
    /\ obj["column"].Dmass_flow = 1
    /\ obj["column"].Bmass_flow = -1

(* C9: a result of simulate holds exactly flooding_velocity,                 *)
(* operating_velocity and flooding_percentage, the percentage being          *)
(* operating_velocity / flooding_velocity * 100; when the flooding velocity  *)
(* is 0 simulate fails with DivisionByZero and returns no result.            *)
C9_ResultRecord ==
    \A c \in Columns :
        Called(c, "simulate") =>
            /\ ~IsExc(ret[c].out) =>
                  /\ DOMAIN ret[c].out =
                        {"flooding_velocity", "operating_velocity", "flooding_percentage"}
                  /\ ~IsZero(ret[c].out.flooding_velocity)
                  /\ ret[c].out.flooding_percentage =
                        Mul(Div(ret[c].out.operating_velocity,
                                ret[c].out.flooding_velocity), I(100))
            /\ IsZero(calculate_flooding_velocity(obj[c], I(BottomsMass(obj[c])),
                                                  I(VaporMass(obj[c])))) =>
                  ret[c].out = DivisionByZero

\* simulate has failed at line 56: both velocities were computed and the
\* flooding velocity was 0 (equal densities).
C9_Witness ==
    /\ Called("column", "simulate")
    /\ ret["column"].out = DivisionByZero
    /\ obj["column"].diameter > 0
    /\ obj["column"].liquid_density = obj["column"].vapor_density
    /\ obj["column"].vapor_density > 0
    /\ VaporMass(obj["column"]) > 0
    /\ BottomsMass(obj["column"]) > 0

(* C10: no step of simulate, that is no call of a calculate_* method and no  *)
(* return or exception of simulate, changes an attribute of a column; and    *)
(* what simulate returns on a column, however its lines interleave with the  *)
(* lines of a simulate call on the other column and however often it is      *)
(* called, is what simulate run alone returns for that column's attributes.  *)
C10_NoSideEffects ==
    [][\A c \in Columns :
          /\ IsBound(obj[c]) => obj'[c] = obj[c]
          /\ Called(c, "simulate")' => ret'[c].out = simulate(obj'[c])]_vars

\* One column's simulate has failed while the other column's simulate, begun
\* before, stands at line 56.
C10_Witness ==
    /\ Called("column", "simulate")
    /\ IsExc(ret["column"].out)
    /\ pc["column2"] = "line56"

====
